---- MODULE Spec2Model ----
(***************************************************************************)
(* Contab-PY: document-to-ledger engine.                                   *)
(*   procesador_xml.py  : parsear_dte_xml (normalizer)                     *)
(*   logica_contable.py : generar_asiento, duplicate-control wrapper       *)
(*   db_config.py       : tables and their constraints                     *)
(*   app.py             : batch loop (tab1), supplier classification (tab2)*)
(***************************************************************************)
EXTENDS Integers, Sequences, FiniteSets, TLC

VARIABLES
    db,          \* committed content of the SQLite store, one field per table
    documento,   \* argument of the last procesar_documento_con_control_duplicado call
    res,         \* how that call ended, with what held just before it
    archivos,    \* tab1: the uploaded files of the running batch
    i,           \* tab1: number of files the loop has gone through
    log,         \* tab1: the per-file log
    insertados,  \* tab1 counters
    duplicados,
    errores,
    pc,          \* tab1: "idle", "loop", "done"
    xml,         \* normalizer: the payload under parse (parsed-tree form)
    parsed,      \* normalizer: outcome of parsear_dte_xml on xml
    tx           \* concurrent postings: each caller's open call (what it read, how it ended)

vars == <<db, documento, res, archivos, i, log, insertados, duplicados, errores, pc, xml, parsed, tx>>
batchVars == <<archivos, i, log, insertados, duplicados, errores, pc>>
parseVars == <<xml, parsed>>
callVars == <<documento, res>>
txVars == <<tx>>

----------------------------------------------------------------------------
(* Bounds *)

\* postings are offered while the store holds fewer documents than this
MaxDocs == 2
\* longest batch of uploaded files
MaxArchivos == 2

----------------------------------------------------------------------------
(* Values *)

\* SQL NULL / Python None in an integer column; autoincrement ids start at 1,
\* and `x or y` (logica_contable.py:53) treats None and 0 alike.
NULL == 0
\* float("nan"): sqlite3 binds it as NULL
NaN == -1
\* marks a key that the dict does not hold
Ausente == "<ausente>"
\* value of an empty XML element / of dict.get on a missing key
None == [t |-> "none"]

Max(S) == CHOOSE m \in S : \A n \in S : n <= m

GASTOS == "Gastos Generales (Por Clasificar)"
IVA == "IVA Crédito Fiscal"
PROVEEDORES == "Proveedores por Pagar"
OTROS == "Otros Gastos"

\* rows the seed CSV holds; init_db inserts those it finds
PlanSemilla ==
    { [id_cuenta |-> 1, nombre |-> GASTOS],
      [id_cuenta |-> 2, nombre |-> IVA],
      [id_cuenta |-> 3, nombre |-> PROVEEDORES],
      [id_cuenta |-> 4, nombre |-> OTROS] }

\* the rows generar_asiento looks up by name; the seed may lack any of them
Obligatorias == {c \in PlanSemilla : c.nombre \in {GASTOS, IVA, PROVEEDORES}}

\* accounts the user picks on the classification screen
Elegibles == {c \in PlanSemilla : c.nombre \in {GASTOS, OTROS}}

Folios == {"1", "2"}
Ruts == {"r1", "r2"}
Tipos == {"33"}

\* amounts, date, file name and issuer name of a record, taken together
Variantes ==
    { [fecha_emision |-> "2024-05-01", monto_neto |-> 1, monto_iva |-> 1, monto_total |-> 2,
       url_archivo |-> "a.xml", razon_social |-> Ausente],
      [fecha_emision |-> "2024-05-02", monto_neto |-> 1, monto_iva |-> 0, monto_total |-> 2,
       url_archivo |-> "b.xml", razon_social |-> Ausente],
      [fecha_emision |-> "2024-05-01", monto_neto |-> NaN, monto_iva |-> 0, monto_total |-> 0,
       url_archivo |-> "a.xml", razon_social |-> Ausente],
      [fecha_emision |-> "2024-05-01", monto_neto |-> 1, monto_iva |-> 1, monto_total |-> 2,
       url_archivo |-> "a.xml", razon_social |-> "Acme"] }

\* the dicts handed to generar_asiento
Documentos ==
    { [folio |-> f, tipo_dte |-> t, rut_emisor |-> r,
       fecha_emision |-> v.fecha_emision, razon_social |-> v.razon_social,
       monto_neto |-> v.monto_neto, monto_iva |-> v.monto_iva, monto_total |-> v.monto_total,
       url_archivo |-> v.url_archivo] : f \in Folios, t \in Tipos, r \in Ruts, v \in Variantes }

----------------------------------------------------------------------------
(* db_config.py: constraints of the tables *)

Clave(d) == <<d.folio, d.rut_emisor, d.tipo_dte>>

\* UniqueConstraint("folio", "rut_emisor", "tipo_dte")
uq_doc_folio_rut_tipo(d, doc) == \A x \in d.documentos : Clave(x) # Clave(doc)

\* primary key of Tbl_Proveedores
TblProveedores_pk(d, fila) == \A p \in d.proveedores : p.rut # fila.rut

\* nullable=False on the Float columns; a NaN reaches SQLite as NULL
TblDocumentos_not_null(doc) ==
    /\ doc.monto_neto # NaN
    /\ doc.monto_iva # NaN
    /\ doc.monto_total # NaN

\* Integer primary key: the next rowid
NextId(tabla) == IF tabla = {} THEN 1 ELSE Max({x.id : x \in tabla}) + 1

----------------------------------------------------------------------------
(* logica_contable.py *)

\* Query.first(): one matching row, the lowest rowid here
First(filas) == CHOOSE c \in filas : \A x \in filas : c.id_cuenta <= x.id_cuenta

\* variant: a lookup that settles for any account when the name is missing
_obtener_cuenta_cualquiera(d, nombre) ==
    IF {c \in d.plan : c.nombre = nombre} = {} THEN PlanSemilla
    ELSE {c \in d.plan : c.nombre = nombre}

\* the rows named `nombre`; the caller raises ValueError when there is none
_obtener_cuenta_por_nombre(d, nombre) == {c \in d.plan : c.nombre = nombre}

\* variant: a session that commits what was flushed even when the block raises
SessionLocal_sin_rollback(antes, sesion, exc) == sesion

\* all three lookups of generar_asiento find their account
PlanCompleto(d) == \A n \in {GASTOS, IVA, PROVEEDORES} : \E c \in d.plan : c.nombre = n

\* `with SessionLocal.begin() as session`: commit when the block ends
\* normally, rollback of everything flushed when it raises
SessionLocal_begin(antes, sesion, exc) == IF exc = "" THEN sesion ELSE antes

NoRet == [status |-> "", documento_id |-> 0, asiento_id |-> 0, motivo |-> Ausente]

\* how the `with` block of generar_asiento ends: the store afterwards, the
\* exception raised ("" for none) with its message, the dict returned
Termina(antes, sesion, exc, msg, ret) ==
    [db |-> SessionLocal_begin(antes, sesion, exc), exc |-> exc, msg |-> msg, ret |-> ret]

\* TblDocumentos(**documento): the declarative constructor takes column names only
TblDocumentos_acepta(doc) == doc.razon_social = Ausente

TblDocumentos_fila(id, doc) ==
    [id |-> id, folio |-> doc.folio, tipo_dte |-> doc.tipo_dte,
     fecha_emision |-> doc.fecha_emision, rut_emisor |-> doc.rut_emisor,
     monto_neto |-> doc.monto_neto, monto_iva |-> doc.monto_iva,
     monto_total |-> doc.monto_total, url_archivo |-> doc.url_archivo]

\* variant: the new supplier left without a default account
TblProveedores_sin_cuenta(doc, cuenta_gastos_default) ==
    [rut |-> doc.rut_emisor,
     razon_social |-> IF doc.razon_social = Ausente
                      THEN "Proveedor sin nombre" ELSE doc.razon_social,
     cuenta_contable_default_id |-> NULL]

\* the row added for an issuer that has none: documento.get("razon_social",
\* "Proveedor sin nombre") as its name, the fallback account as its default
TblProveedores_nuevo(doc, cuenta_gastos_default) ==
    [rut |-> doc.rut_emisor,
     razon_social |-> IF doc.razon_social = Ausente
                      THEN "Proveedor sin nombre" ELSE doc.razon_social,
     cuenta_contable_default_id |-> cuenta_gastos_default.id_cuenta]

\* variant: the fallback account whatever the supplier's default
CuentaGasto_siempre_fallback(proveedor, cuenta_gastos_default) ==
    cuenta_gastos_default.id_cuenta

\* supplier's default account, or the fallback when it is None
CuentaGasto(proveedor, cuenta_gastos_default) ==
    IF proveedor.cuenta_contable_default_id # NULL
    THEN proveedor.cuenta_contable_default_id
    ELSE cuenta_gastos_default.id_cuenta

\* variant: the payables line left out
Movimientos_sin_haber(m, asiento, doc, razon, id_cuenta_gasto, cuenta_iva, cuenta_proveedores) ==
    { [id |-> m + 1, id_asiento |-> asiento.id, id_cuenta |-> id_cuenta_gasto,
       debe |-> doc.monto_neto, haber |-> 0,
       glosa |-> <<doc.tipo_dte, doc.folio, razon, "Gasto Neto">>],
      [id |-> m + 2, id_asiento |-> asiento.id, id_cuenta |-> cuenta_iva.id_cuenta,
       debe |-> doc.monto_iva, haber |-> 0,
       glosa |-> <<doc.tipo_dte, doc.folio, razon, IVA>>] }

\* variant: the payables line written on the debit side
Movimientos_haber_al_debe(m, asiento, doc, razon, id_cuenta_gasto, cuenta_iva, cuenta_proveedores) ==
    { [id |-> m + 1, id_asiento |-> asiento.id, id_cuenta |-> id_cuenta_gasto,
       debe |-> doc.monto_neto, haber |-> 0,
       glosa |-> <<doc.tipo_dte, doc.folio, razon, "Gasto Neto">>],
      [id |-> m + 2, id_asiento |-> asiento.id, id_cuenta |-> cuenta_iva.id_cuenta,
       debe |-> doc.monto_iva, haber |-> 0,
       glosa |-> <<doc.tipo_dte, doc.folio, razon, IVA>>],
      [id |-> m + 3, id_asiento |-> asiento.id, id_cuenta |-> cuenta_proveedores.id_cuenta,
       debe |-> doc.monto_total, haber |-> 0,
       glosa |-> <<doc.tipo_dte, doc.folio, razon, PROVEEDORES>>] }

\* the three movement rows of an entry
Movimientos(m, asiento, doc, razon, id_cuenta_gasto, cuenta_iva, cuenta_proveedores) ==
    { [id |-> m + 1, id_asiento |-> asiento.id, id_cuenta |-> id_cuenta_gasto,
       debe |-> doc.monto_neto, haber |-> 0,
       glosa |-> <<doc.tipo_dte, doc.folio, razon, "Gasto Neto">>],
      [id |-> m + 2, id_asiento |-> asiento.id, id_cuenta |-> cuenta_iva.id_cuenta,
       debe |-> doc.monto_iva, haber |-> 0,
       glosa |-> <<doc.tipo_dte, doc.folio, razon, IVA>>],
      [id |-> m + 3, id_asiento |-> asiento.id, id_cuenta |-> cuenta_proveedores.id_cuenta,
       debe |-> 0, haber |-> doc.monto_total,
       glosa |-> <<doc.tipo_dte, doc.folio, razon, PROVEEDORES>>] }

\* generar_asiento(documento) run against store d:
\* [db: the store afterwards, exc: the exception raised or "", ret: the dict returned]
\* `existente` is what session.get(TblProveedores, rut) returned (line 38);
\* d is the store the flushes and the commit meet.
generar_asiento_leido(d, doc, existente) ==
    LET g == _obtener_cuenta_por_nombre(d, GASTOS)
        v == _obtener_cuenta_por_nombre(d, IVA)
        pp == _obtener_cuenta_por_nombre(d, PROVEEDORES)
    IN  IF g = {} \/ v = {} \/ pp = {}
        THEN Termina(d, d, "ValueError",
                     <<"No existe la cuenta obligatoria",
                       IF g = {} THEN GASTOS ELSE IF v = {} THEN IVA ELSE PROVEEDORES>>,
                     NoRet)
        ELSE
        LET cuenta_gastos_default == First(g)
            cuenta_iva == First(v)
            cuenta_proveedores == First(pp)
            nuevo == TblProveedores_nuevo(doc, cuenta_gastos_default)
            proveedor == IF existente = {} THEN nuevo ELSE CHOOSE p \in existente : TRUE
            s1 == IF existente = {} THEN [d EXCEPT !.proveedores = @ \cup {nuevo}] ELSE d
            id_cuenta_gasto == CuentaGasto(proveedor, cuenta_gastos_default)
            doc_db == TblDocumentos_fila(NextId(s1.documentos), doc)
        IN  IF existente = {} /\ ~TblProveedores_pk(d, nuevo)
            THEN Termina(d, d, "IntegrityError", <<"IntegrityError">>, NoRet)
            ELSE IF ~TblDocumentos_acepta(doc)
            THEN Termina(d, s1, "TypeError",
                         <<"'razon_social' is an invalid keyword argument for TblDocumentos">>,
                         NoRet)
            ELSE IF ~(TblDocumentos_not_null(doc_db) /\ uq_doc_folio_rut_tipo(s1, doc_db))
            THEN Termina(d, s1, "IntegrityError", <<"IntegrityError">>, NoRet)
            ELSE
            LET s2 == [s1 EXCEPT !.documentos = @ \cup {doc_db}]
                asiento == [id |-> NextId(s2.asientos), id_documento |-> doc_db.id,
                            fecha |-> doc.fecha_emision]
                s3 == [s2 EXCEPT !.asientos = @ \cup {asiento}]
                m == NextId(s3.movimientos) - 1
                s4 == [s3 EXCEPT !.movimientos = @ \cup
                         Movimientos(m, asiento, doc, proveedor.razon_social,
                                     id_cuenta_gasto, cuenta_iva, cuenta_proveedores)]
            IN  Termina(d, s4, "", <<>>,
                        [status |-> "ok", documento_id |-> doc_db.id, asiento_id |-> asiento.id,
                         motivo |-> Ausente])

\* a call that reads and writes with no other call in between
generar_asiento(d, doc) ==
    generar_asiento_leido(d, doc, {p \in d.proveedores : p.rut = doc.rut_emisor})

\* try: generar_asiento / except IntegrityError: duplicado
control_duplicado(r) ==
    IF r.exc = "IntegrityError"
    THEN [db |-> r.db, exc |-> "", msg |-> <<>>,
          ret |-> [status |-> "duplicado", documento_id |-> 0, asiento_id |-> 0,
                   motivo |-> "Documento ya existe (folio, rut, tipo_dte)"]]
    ELSE r

procesar_documento_con_control_duplicado(d, doc) ==
    control_duplicado(generar_asiento(d, doc))

\* what the caller sees: the status returned, or the exception that came out
Resultado(r) == IF r.exc = "" THEN r.ret.status ELSE r.exc

----------------------------------------------------------------------------
(* app.py tab2: "Guardar clasificación" *)

SinAsignar == -2

\* label shown for a supplier row: its account, or "Sin asignar" when the
\* default is not an account of the chart
map_cuentas(d, p) ==
    IF p.cuenta_contable_default_id \in {c.id_cuenta : c \in d.plan}
    THEN p.cuenta_contable_default_id ELSE SinAsignar

\* the edited frame holds the rows `filas`; the user set row `rut` to account `cuenta`.
\* opciones[...] raises KeyError on "Sin asignar", inside the transaction.
guardar_clasificacion(d, filas, rut, cuenta) ==
    LET nueva(p) == IF p.rut = rut THEN cuenta ELSE map_cuentas(d, p)
        sesion == [d EXCEPT !.proveedores =
                      { IF p \in filas THEN [p EXCEPT !.cuenta_contable_default_id = nueva(p)]
                        ELSE p : p \in d.proveedores }]
        exc == IF \E p \in filas : nueva(p) = SinAsignar THEN "KeyError" ELSE ""
    IN  SessionLocal_begin(d, sesion, exc)

----------------------------------------------------------------------------
(* The posting engine and the classification screen *)

DbInit ==
    /\ db \in [plan : {PlanSemilla \ faltan : faltan \in SUBSET Obligatorias},
               \* Tbl_Proveedores may hold rows from before; the default is nullable
               proveedores : {{}, {[rut |-> "r1", razon_social |-> "Acme",
                                     cuenta_contable_default_id |-> NULL]}},
               documentos : {{}}, asientos : {{}}, movimientos : {{}}]

NoCall == [status |-> "", documento_id |-> 0, asiento_id |-> 0, previo |-> FALSE, proveedor_previo |-> FALSE]

BatchIdle ==
    /\ archivos = <<>> /\ i = 0 /\ log = <<>>
    /\ insertados = 0 /\ duplicados = 0 /\ errores = 0 /\ pc = "idle"

ParseIdle == xml = None /\ parsed = None

\* the callers of the concurrent postings
Procs == {"p1", "p2"}

NoTx == [pc |-> "idle", doc |-> None, visto |-> {}, status |-> ""]
TxIdle == tx = [p \in Procs |-> NoTx]

Init ==
    /\ DbInit
    /\ documento = None
    /\ res = NoCall
    /\ BatchIdle
    /\ ParseIdle
    /\ TxIdle

\* one call of procesar_documento_con_control_duplicado(doc)
Procesar(doc) ==
    LET r == procesar_documento_con_control_duplicado(db, doc)
    IN  /\ Cardinality(r.db.documentos) <= MaxDocs
        /\ db' = r.db
        /\ documento' = doc
        /\ res' = [status |-> Resultado(r),
                   documento_id |-> r.ret.documento_id, asiento_id |-> r.ret.asiento_id,
                   previo |-> ~uq_doc_folio_rut_tipo(db, doc),
                   proveedor_previo |-> \E p \in db.proveedores : p.rut = doc.rut_emisor]
        /\ UNCHANGED <<batchVars, parseVars, txVars>>

\* the classification screen saves
Guardar(filas, rut, cuenta) ==
    /\ db' = guardar_clasificacion(db, filas, rut, cuenta)
    /\ UNCHANGED <<callVars, batchVars, parseVars, txVars>>

Next ==
    \/ \E doc \in Documentos : Procesar(doc)
    \/ \E filas \in SUBSET db.proveedores : \E p \in filas : \E c \in db.plan \cap Elegibles :
           Guardar(filas, p.rut, c.id_cuenta)

Spec == Init /\ [][Next]_vars

----------------------------------------------------------------------------
(* Postings that overlap: each call is a transaction of its own session *)

\* records that post when alone: no razon_social key, finite amounts
ConcDocs == {doc \in Documentos : TblDocumentos_acepta(doc) /\ TblDocumentos_not_null(doc)}

\* lines 38-42: session.get of the supplier and the three account lookups;
\* SELECTs take no write lock, so other calls may commit before this one writes
Leer(p, doc) ==
    /\ tx[p].pc = "idle"
    /\ tx' = [tx EXCEPT ![p] =
                 IF PlanCompleto(db)
                 THEN [pc |-> "leido", doc |-> doc,
                       visto |-> {x \in db.proveedores : x.rut = doc.rut_emisor},
                       status |-> ""]
                 ELSE [pc |-> "fin", doc |-> doc, visto |-> {}, status |-> "ValueError"]]
    /\ UNCHANGED <<db, callVars, batchVars, parseVars>>

\* lines 44-89 and the wrapper: the flushes and the commit, under the store's
\* write lock, against what is committed by then
Escribir(p) ==
    /\ tx[p].pc = "leido"
    /\ LET r == control_duplicado(generar_asiento_leido(db, tx[p].doc, tx[p].visto))
       IN  /\ Cardinality(r.db.documentos) <= MaxDocs
           /\ db' = r.db
           /\ tx' = [tx EXCEPT ![p] = [@ EXCEPT !.pc = "fin", !.status = Resultado(r)]]
    /\ UNCHANGED <<callVars, batchVars, parseVars>>

ConcNext ==
    \/ \E p \in Procs : \E doc \in ConcDocs : Leer(p, doc)
    \/ \E p \in Procs : Escribir(p)

ConcSpec == Init /\ [][ConcNext]_vars

----------------------------------------------------------------------------
(* procesador_xml.py *)

\* the tree xmltodict.parse returns: mappings (ordered), lists, text, None
Str(s) == [t |-> "str", s |-> s]
Dict(items) == [t |-> "dict", items |-> items]
Lista(xs) == [t |-> "list", xs |-> xs]
KV(k, v) == [k |-> k, v |-> v]
\* a payload xmltodict.parse rejects (ExpatError)
Malformado == [t |-> "malformed"]

\* marks a child element left out when a payload is built
NoKey == [t |-> "absent"]
Items(kvs) == SelectSeq(kvs, LAMBDA kv : kv.v # NoKey)

HasKey(node, k) == \E n \in 1..Len(node.items) : node.items[n].k = k

\* dict.get(k, default) on a mapping node
Get(node, k, default) ==
    IF HasKey(node, k)
    THEN node.items[CHOOSE n \in 1..Len(node.items) : node.items[n].k = k].v
    ELSE default

RECURSIVE _buscar_nodo_recursivo(_, _), BuscarEnDict(_, _, _), BuscarEnLista(_, _, _)
\* first depth-first match of the key, or None
_buscar_nodo_recursivo(data, clave_objetivo) ==
    IF data.t = "dict" THEN BuscarEnDict(data.items, 1, clave_objetivo)
    ELSE IF data.t = "list" THEN BuscarEnLista(data.xs, 1, clave_objetivo)
    ELSE None

BuscarEnDict(items, n, clave_objetivo) ==
    IF n > Len(items) THEN None
    ELSE IF items[n].k = clave_objetivo THEN items[n].v
    ELSE LET found == _buscar_nodo_recursivo(items[n].v, clave_objetivo)
         IN  IF found # None THEN found ELSE BuscarEnDict(items, n + 1, clave_objetivo)

BuscarEnLista(xs, n, clave_objetivo) ==
    IF n > Len(xs) THEN None
    ELSE LET found == _buscar_nodo_recursivo(xs[n], clave_objetivo)
         IN  IF found # None THEN found ELSE BuscarEnLista(xs, n + 1, clave_objetivo)

\* the texts float() reads as a number
Numericos == {"0", "1", "2", " 1 ", "nan"}
ParseFloat(s) ==
    CASE s = "0" -> 0 [] s = "1" -> 1 [] s = " 1 " -> 1 [] s = "2" -> 2 [] s = "nan" -> NaN

\* float(value), 0.0 on TypeError (None, mapping, list) or ValueError (other text)
_safe_float(value) ==
    IF value.t = "str" /\ value.s \in Numericos THEN ParseFloat(value.s) ELSE 0

\* str.strip()
Strip(s) == CASE s = " 1 " -> "1" [] s = " r1 " -> "r1" [] OTHER -> s

\* str(x).strip() of what dict.get returned
StrStrip(value) ==
    IF value.t = "str" THEN Strip(value.s)
    ELSE IF value = None THEN "None"
    ELSE "<repr>"

\* datetime.strptime(fecha, "%Y-%m-%d") accepts these
FechasValidas == {"2024-05-01", "2024-05-02"}

ParseError(nombre_archivo, causa) ==
    [ok |-> FALSE,
     exc |-> [tipo |-> "ValueError", msg |-> <<"No se pudo procesar", nombre_archivo, causa>>]]

\* falsy values of `if not encabezado`
Falsy(node) ==
    \/ node = None
    \/ node.t = "str" /\ node.s = ""
    \/ node.t = "dict" /\ node.items = <<>>
    \/ node.t = "list" /\ node.xs = <<>>

\* parsear_dte_xml(xml_bytes, nombre_archivo), on the parsed tree of xml_bytes:
\* [ok |-> TRUE, doc |-> the dict] or [ok |-> FALSE, exc |-> the ValueError raised]
parsear_dte_xml(data, nombre_archivo) ==
    IF data = Malformado THEN ParseError(nombre_archivo, "ExpatError")
    ELSE
    LET encabezado == _buscar_nodo_recursivo(data, "Encabezado")
    IN  IF Falsy(encabezado)
        THEN ParseError(nombre_archivo, "No se encontró nodo 'Encabezado' en el XML")
        ELSE IF encabezado.t # "dict"
        THEN ParseError(nombre_archivo, "AttributeError: encabezado.get")
        ELSE
        LET id_doc == Get(encabezado, "IdDoc", Dict(<<>>))
            emisor == Get(encabezado, "Emisor", Dict(<<>>))
            totales == Get(encabezado, "Totales", Dict(<<>>))
        IN  IF id_doc.t # "dict"
            THEN ParseError(nombre_archivo, "AttributeError: id_doc.get")
            ELSE
            LET fecha == Get(id_doc, "FchEmis", None)
            IN  IF fecha.t # "str"
                THEN ParseError(nombre_archivo, "TypeError: strptime")
                ELSE IF fecha.s \notin FechasValidas
                THEN ParseError(nombre_archivo, "ValueError: strptime")
                ELSE IF emisor.t # "dict"
                THEN ParseError(nombre_archivo, "AttributeError: emisor.get")
                ELSE IF totales.t # "dict"
                THEN ParseError(nombre_archivo, "AttributeError: totales.get")
                ELSE
                [ok |-> TRUE,
                 doc |-> [folio |-> StrStrip(Get(id_doc, "Folio", Str(""))),
                          tipo_dte |-> StrStrip(Get(id_doc, "TipoDTE", Str(""))),
                          fecha_emision |-> fecha.s,
                          rut_emisor |-> StrStrip(Get(emisor, "RUTEmisor", Str(""))),
                          razon_social |-> StrStrip(Get(emisor, "RznSoc", Str("Proveedor sin nombre"))),
                          monto_neto |-> _safe_float(Get(totales, "MntNeto", None)),
                          monto_iva |-> _safe_float(Get(totales, "IVA", None)),
                          monto_total |-> _safe_float(Get(totales, "MntTotal", None)),
                          url_archivo |-> nombre_archivo]]

----------------------------------------------------------------------------
(* Payloads *)

IdDocs ==
    { Dict(Items(<<KV("TipoDTE", Str("33")), KV("Folio", Str(" 1 ")), KV("FchEmis", f)>>)) :
        f \in {Str("2024-05-01"), Str("01/05/2024"), NoKey} }

Emisores ==
    { Dict(<<KV("RUTEmisor", Str("r1")), KV("RznSoc", Str("Acme"))>>),
      Dict(<<KV("RUTEmisor", Str(" r1 "))>>),
      None,
      NoKey }

\* <Totales> with each amount left out, numeric, or not numeric; the element
\* empty (None); the element left out
TotalesNodos ==
    ({ Dict(Items(<<KV("MntNeto", n), KV("IVA", v), KV("MntTotal", m)>>)) :
         n \in {NoKey, Str("1"), Str("abc")},
         v \in {NoKey, Str("1"), Str("nan")},
         m \in {NoKey, Str("2"), None} } \ {Dict(<<>>)})
    \cup {None, NoKey}

Encabezados ==
    { Dict(Items(<<KV("IdDoc", d), KV("Emisor", e), KV("Totales", tt)>>)) :
        d \in IdDocs \cup {NoKey}, e \in Emisores, tt \in TotalesNodos }
    \cup {None, Str("texto")}

\* the header at the root's child, two levels down, inside a list of
\* documents, or nowhere; and a payload that is not XML
Payloads ==
    { Dict(<<KV("Documento", Dict(<<KV("Encabezado", h)>>))>>) : h \in Encabezados }
    \cup { Dict(<<KV("DTE", Dict(<<KV("@version", Str("1.0")),
                                   KV("Documento", Dict(<<KV("@ID", Str("F1")),
                                                          KV("Encabezado", h)>>))>>))>>) :
             h \in Encabezados }
    \cup { Dict(<<KV("SetDTE", Dict(<<KV("DTE", Lista(<<Dict(<<KV("Firma", None)>>),
                                                        Dict(<<KV("Encabezado", h)>>)>>))>>))>>) :
             h \in Encabezados }
    \cup { Dict(<<KV("DTE", Dict(<<KV("Documento", Str("texto"))>>))>>), Malformado }

Nombres == {"a.xml", "b.xml"}

----------------------------------------------------------------------------
(* The normalizer on its own *)

DbSembrada ==
    [plan |-> PlanSemilla, proveedores |-> {}, documentos |-> {}, asientos |-> {},
     movimientos |-> {}]

ParseInit ==
    /\ db = DbSembrada
    /\ documento = None
    /\ res = NoCall
    /\ BatchIdle
    /\ xml \in Payloads
    /\ parsed = None
    /\ TxIdle

Parsear(nombre_archivo) ==
    /\ parsed = None
    /\ parsed' = parsear_dte_xml(xml, nombre_archivo)
    /\ UNCHANGED <<db, callVars, batchVars, xml, txVars>>

ParseNext == \E nombre_archivo \in Nombres : Parsear(nombre_archivo)

ParseSpec == ParseInit /\ [][ParseNext]_vars

\* the header node is found and usable, and the issue date parses
EncabezadoYFecha(data) ==
    /\ data # Malformado
    /\ LET h == _buscar_nodo_recursivo(data, "Encabezado")
       IN  /\ h.t = "dict"
           /\ HasKey(h, "IdDoc")
           /\ Get(h, "IdDoc", None).t = "dict"
           /\ Get(Get(h, "IdDoc", None), "FchEmis", None).t = "str"
           /\ Get(Get(h, "IdDoc", None), "FchEmis", None).s \in FechasValidas
           /\ Get(h, "Emisor", Dict(<<>>)).t = "dict"

\* the amount element `campo` of the payload, or NoKey when it or <Totales> is
\* absent or <Totales> is empty
Monto(data, campo) ==
    LET h == _buscar_nodo_recursivo(data, "Encabezado")
        tt == Get(h, "Totales", NoKey)
    IN  IF tt.t = "dict" THEN Get(tt, campo, NoKey) ELSE NoKey

NoNumerico(value) == ~(value.t = "str" /\ value.s \in Numericos)

\* C9 (as claimed): with the header found and the date parsed, parsear_dte_xml
\* returns a record, and each amount that is absent or not numeric is 0 in it,
\* also when <Totales> is absent or has no children.
C9_Claim ==
    (parsed # None /\ EncabezadoYFecha(xml)) =>
        /\ parsed.ok
        /\ NoNumerico(Monto(xml, "MntNeto")) => parsed.doc.monto_neto = 0
        /\ NoNumerico(Monto(xml, "IVA")) => parsed.doc.monto_iva = 0
        /\ NoNumerico(Monto(xml, "MntTotal")) => parsed.doc.monto_total = 0

----------------------------------------------------------------------------
(* app.py tab1: the batch loop *)

NoExc == [tipo |-> "", msg |-> <<>>]

\* variant: a handler that lets the missing-account error through
except_salvo_configuracion(exc) == exc.msg[1] # "No existe la cuenta obligatoria"

\* `except Exception as exc`: every exception of the iteration lands here
except_Exception(exc) == TRUE

\* the files offered for upload
GoodXml ==
    Dict(<<KV("DTE", Dict(<<KV("Documento", Dict(<<KV("Encabezado", Dict(<<
        KV("IdDoc", Dict(<<KV("TipoDTE", Str("33")), KV("Folio", Str("1")),
                           KV("FchEmis", Str("2024-05-01"))>>)),
        KV("Emisor", Dict(<<KV("RUTEmisor", Str("r1")), KV("RznSoc", Str("Acme"))>>)),
        KV("Totales", Dict(<<KV("MntNeto", Str("1")), KV("IVA", Str("1")),
                             KV("MntTotal", Str("2"))>>))>>))>>))>>))>>)

SinIvaXml ==
    Dict(<<KV("Encabezado", Dict(<<
        KV("IdDoc", Dict(<<KV("TipoDTE", Str("33")), KV("Folio", Str("2")),
                           KV("FchEmis", Str("2024-05-02"))>>)),
        KV("Emisor", Dict(<<KV("RUTEmisor", Str("r2"))>>)),
        KV("Totales", Dict(<<KV("MntNeto", Str("1")), KV("MntTotal", Str("2"))>>))>>))>>)

ArchivosSubidos ==
    { [name |-> "a.xml", xml |-> GoodXml],
      [name |-> "b.xml", xml |-> SinIvaXml],
      [name |-> "c.xml", xml |-> Malformado] }

\* parsear_dte_xml(archivo.getvalue(), archivo.name) for each file on offer
Parseado == [a \in ArchivosSubidos |-> parsear_dte_xml(a.xml, a.name)]

\* the try block of one iteration: parse, then post;
\* [db: the store afterwards, exc: the exception that came out or NoExc, ret]
Intentar(d, archivo) ==
    LET p == Parseado[archivo]
    IN  IF ~p.ok THEN [db |-> d, exc |-> p.exc, ret |-> NoRet]
        ELSE LET r == procesar_documento_con_control_duplicado(d, p.doc)
             IN  [db |-> r.db,
                  exc |-> IF r.exc = "" THEN NoExc ELSE [tipo |-> r.exc, msg |-> r.msg],
                  ret |-> r.ret]

Lotes == UNION { [1..n -> ArchivosSubidos] : n \in 1..MaxArchivos }

\* "Procesar documentos" pressed with at least one file selected
Ejecutar(lote) ==
    /\ pc \in {"idle", "done"}
    /\ archivos' = lote
    /\ insertados' = 0 /\ duplicados' = 0 /\ errores' = 0
    /\ log' = <<>>
    /\ i' = 0
    /\ pc' = "loop"
    /\ UNCHANGED <<db, callVars, parseVars, txVars>>

\* one turn of `for i, archivo in enumerate(archivos, start=1)`
Iterar ==
    /\ pc = "loop"
    /\ i < Len(archivos)
    /\ LET archivo == archivos[i + 1]
           t == Intentar(db, archivo)
       IN  /\ db' = t.db
           /\ IF t.exc = NoExc
              THEN /\ insertados' = IF t.ret.status = "ok" THEN insertados + 1 ELSE insertados
                   /\ duplicados' = IF t.ret.status = "ok" THEN duplicados ELSE duplicados + 1
                   /\ errores' = errores
                   /\ log' = Append(log,
                          [archivo |-> archivo.name,
                           estado |-> IF t.ret.status = "ok" THEN "insertado" ELSE "duplicado",
                           detalle |-> IF t.ret.motivo = Ausente THEN <<"OK">>
                                       ELSE <<t.ret.motivo>>])
                   /\ i' = i + 1
                   /\ pc' = "loop"
              ELSE IF except_Exception(t.exc)
              THEN /\ errores' = errores + 1
                   /\ log' = Append(log, [archivo |-> archivo.name, estado |-> "error",
                                          detalle |-> t.exc.msg])
                   /\ i' = i + 1
                   /\ pc' = "loop"
                   /\ UNCHANGED <<insertados, duplicados>>
              ELSE \* the exception leaves the loop and ends the script run
                   /\ pc' = "abortado"
                   /\ UNCHANGED <<insertados, duplicados, errores, log, i>>
    /\ UNCHANGED <<archivos, callVars, parseVars, txVars>>

\* after the last file: the log is kept and the totals are shown
Terminar ==
    /\ pc = "loop"
    /\ i = Len(archivos)
    /\ pc' = "done"
    /\ UNCHANGED <<db, callVars, parseVars, txVars, archivos, i, log, insertados, duplicados, errores>>

BatchInit ==
    /\ DbInit
    /\ documento = None
    /\ res = NoCall
    /\ BatchIdle
    /\ ParseIdle
    /\ TxIdle

BatchNext ==
    \/ \E lote \in Lotes : Ejecutar(lote)
    \/ Iterar
    \/ Terminar

\* the loop is a plain sequential for: once started it runs to its end
BatchSpec == BatchInit /\ [][BatchNext]_vars /\ WF_vars(Iterar) /\ WF_vars(Terminar)

----------------------------------------------------------------------------
(* Properties of the posting engine *)

RECURSIVE Suma(_, _)
\* sum of column `campo` ("debe" or "haber") over a set of movement rows
Suma(filas, campo) ==
    IF filas = {} THEN 0
    ELSE LET m == CHOOSE x \in filas : TRUE
         IN  (IF campo = "debe" THEN m.debe ELSE m.haber) + Suma(filas \ {m}, campo)

AsientosDe(x) == {a \in db.asientos : a.id_documento = x.id}
MovimientosDe(a) == {m \in db.movimientos : m.id_asiento = a.id}
IdCuenta(d, nombre) == (CHOOSE c \in d.plan : c.nombre = nombre).id_cuenta
Linea(m) == m.glosa[4]

\* the step is a call of procesar_documento_con_control_duplicado, on documento'
EsLlamada == documento' \in Documentos /\ Procesar(documento')

\* C1: in every committed store state every Document has exactly one
\* LedgerEntry and every LedgerEntry has exactly three Movements (and no
\* LedgerEntry or Movement is left without its owner), whatever calls were
\* made and however they ended.
C1_AllOrNothing ==
    /\ \A x \in db.documentos : Cardinality(AsientosDe(x)) = 1
    /\ \A a \in db.asientos :
          /\ Cardinality(MovimientosDe(a)) = 3
          /\ \E x \in db.documentos : x.id = a.id_documento
    /\ \A m \in db.movimientos : \E a \in db.asientos : a.id = m.id_asiento

\* a call failed after the supplier row was flushed, in a store holding a posted document
C1_Witness ==
    /\ res.status \in {"TypeError", "duplicado"}
    /\ ~res.proveedor_previo
    /\ db.documentos # {}

\* C2 (as claimed): with the chart seeded and finite amounts, a call for a key
\* not yet stored returns ok, a call for a stored key returns duplicado, and the key then has
\* exactly one Document, one LedgerEntry and three Movements; keys are unique.
C2_Claim ==
    (res.status # "" /\ PlanCompleto(db) /\ TblDocumentos_not_null(documento)) =>
        /\ res.status = (IF res.previo THEN "duplicado" ELSE "ok")
        /\ LET ds == {x \in db.documentos : Clave(x) = Clave(documento)}
           IN  /\ Cardinality(ds) = 1
               /\ \A x \in ds : /\ Cardinality(AsientosDe(x)) = 1
                                /\ \A a \in AsientosDe(x) : Cardinality(MovimientosDe(a)) = 3
        /\ \A x, y \in db.documentos : Clave(x) = Clave(y) => x = y

C4_RoundTrip ==
    \A x \in db.documentos : x.monto_neto + x.monto_iva = x.monto_total =>
        \A a \in AsientosDe(x) :
            LET ms == MovimientosDe(a)
                N == x.monto_neto
                T == x.monto_iva
            IN  /\ Cardinality(ms) = 3
                /\ \E g, v, p \in ms :
                      /\ ms = {g, v, p}
                      /\ Linea(g) = "Gasto Neto" /\ g.debe = N /\ g.haber = 0
                      /\ v.id_cuenta = IdCuenta(db, IVA) /\ v.debe = T /\ v.haber = 0
                      /\ p.id_cuenta = IdCuenta(db, PROVEEDORES) /\ p.debe = 0 /\ p.haber = N + T
                /\ Suma(ms, "debe") = N + T
                /\ Suma(ms, "haber") = N + T

\* the last call posted a record with net 1, tax 1, total 2
C4_Witness ==
    /\ res.status = "ok"
    /\ documento.monto_neto = 1 /\ documento.monto_iva = 1 /\ documento.monto_total = 2
    /\ \E x \in db.documentos : x.id = res.documento_id /\ Clave(x) = Clave(documento)

\* C5: a successful posting debits the net amount to the account that is the
\* supplier's default when the call is made; to the fallback account when the
\* supplier has no default or did not exist.
C5_Routing ==
    [][(EsLlamada /\ res'.status = "ok") =>
          LET doc == documento'
              S == {p \in db.proveedores : p.rut = doc.rut_emisor}
              esperada == IF S # {} /\ \A p \in S : p.cuenta_contable_default_id # NULL
                          THEN (CHOOSE p \in S : TRUE).cuenta_contable_default_id
                          ELSE IdCuenta(db, GASTOS)
              netos == {m \in db'.movimientos \ db.movimientos : Linea(m) = "Gasto Neto"}
          IN  /\ Cardinality(netos) = 1
              /\ \A m \in netos : /\ m.id_cuenta = esperada
                                  /\ m.debe = doc.monto_neto /\ m.haber = 0
                                  /\ m.id_asiento = res'.asiento_id]_vars

\* two postings of one supplier went to different accounts: the default was
\* changed between them, and the later posting followed it
C5_Witness ==
    \E x, y \in db.documentos :
        /\ x.rut_emisor = y.rut_emisor /\ x.id < y.id
        /\ \E a \in AsientosDe(x), b \in AsientosDe(y) :
              \E m \in MovimientosDe(a), n \in MovimientosDe(b) :
                  /\ Linea(m) = "Gasto Neto" /\ Linea(n) = "Gasto Neto"
                  /\ m.id_cuenta = IdCuenta(db, GASTOS)
                  /\ n.id_cuenta = IdCuenta(db, OTROS)
        /\ res.status = "ok" /\ res.documento_id = y.id

\* C6: when one of the three required accounts is missing, the call ends with
\* the configuration error (ValueError) and the store is unchanged.
C6_FatalConfig ==
    [][(EsLlamada /\ ~PlanCompleto(db)) =>
          /\ res'.status = "ValueError"
          /\ db' = db]_vars

\* a call for an unseen issuer ended with the configuration error
C6_Witness ==
    /\ res.status = "ValueError"
    /\ ~res.proveedor_previo
    /\ ~PlanCompleto(db)
    /\ \A p \in db.proveedores : p.rut # documento.rut_emisor

\* C11: a successful call whose issuer has no Supplier row adds exactly one
\* row, with that identifier, the record's issuer name (the placeholder when
\* the record has none) and the fallback account as default; a call, however
\* it ends, whose issuer has a row leaves the Supplier table as it was; no
\* call removes a Supplier row.
C11_SupplierLifecycle ==
    [][EsLlamada =>
          LET doc == documento'
              S == {p \in db.proveedores : p.rut = doc.rut_emisor}
              creados == db'.proveedores \ db.proveedores
          IN  /\ db.proveedores \subseteq db'.proveedores
              /\ S # {} => creados = {}
              /\ (S = {} /\ res'.status = "ok") =>
                    /\ Cardinality(creados) = 1
                    /\ \A p \in creados :
                          /\ p.rut = doc.rut_emisor
                          /\ p.razon_social = (IF doc.razon_social = Ausente
                                               THEN "Proveedor sin nombre"
                                               ELSE doc.razon_social)
                          /\ p.cuenta_contable_default_id = IdCuenta(db, GASTOS)
              /\ Cardinality({p.rut : p \in db'.proveedores}) = Cardinality(db'.proveedores)]_vars

\* a first posting created the supplier of its issuer, with the fallback
\* account; then a call whose record names that issuer differently ended
\* (in error) and the row still has the name it was created with
C11_Witness ==
    /\ res.proveedor_previo
    /\ documento.razon_social # Ausente
    /\ \E p \in db.proveedores :
          /\ p.rut = documento.rut_emisor
          /\ p.razon_social = "Proveedor sin nombre"
          /\ p.razon_social # documento.razon_social
          /\ p.cuenta_contable_default_id = IdCuenta(db, GASTOS)
    /\ \E x \in db.documentos : x.rut_emisor = documento.rut_emisor

\* C10: a call that returns duplicado leaves every table as it was.
C10_DuplicateFrame ==
    [][(EsLlamada /\ res'.status = "duplicado") => db' = db]_vars

\* a duplicate whose record differs from the stored Document in amounts, date
\* and file name; the stored rows are those of the first posting
C10_Witness ==
    /\ res.status = "duplicado"
    /\ res.previo
    /\ \E x \in db.documentos :
          /\ Clave(x) = Clave(documento)
          /\ x.monto_iva # documento.monto_iva
          /\ x.fecha_emision # documento.fecha_emision
          /\ x.url_archivo # documento.url_archivo
          /\ \A a \in AsientosDe(x) : \E m \in MovimientosDe(a) : m.debe = x.monto_iva /\ Linea(m) = IVA

----------------------------------------------------------------------------
(* Properties of the batch loop *)

ErrorDeConfiguracion(e) ==
    e.estado = "error" /\ e.detalle[1] = "No existe la cuenta obligatoria"

\* C7 (as claimed): a missing required account is never turned into a
\* per-item error entry of the log; the error leaves the loop instead.
C7_Claim == \A k \in 1..Len(log) : ~ErrorDeConfiguracion(log[k])

\* C7 (amended): when the posting of a file fails because a required account
\* is missing, the loop records a per-item error entry naming the missing
\* account and goes on to the next file; nothing leaves the loop.
C7_Caught ==
    [][(Iterar /\ ~PlanCompleto(db) /\ Parseado[archivos[i + 1]].ok) =>
          /\ Len(log') = Len(log) + 1
          /\ ErrorDeConfiguracion(log'[Len(log')])
          /\ log'[Len(log')].archivo = archivos[i + 1].name
          /\ errores' = errores + 1
          /\ i' = i + 1
          /\ pc' = "loop"
          /\ db' = db]_vars

\* a batch ran to its end after its first file hit the missing account
C7_Witness ==
    /\ pc = "done"
    /\ Len(log) >= 2
    /\ ErrorDeConfiguracion(log[1])

\* while the loop runs and when it is done: one entry per file gone through,
\* in order; every estado is one of the three; the counters add up
C8_Log ==
    pc \in {"loop", "done"} =>
        /\ Len(log) = i
        /\ pc = "done" => i = Len(archivos)
        /\ \A k \in 1..Len(log) :
              /\ log[k].archivo = archivos[k].name
              /\ log[k].estado \in {"insertado", "duplicado", "error"}
        /\ insertados + duplicados + errores = i
        /\ insertados = Cardinality({k \in 1..Len(log) : log[k].estado = "insertado"})
        /\ duplicados = Cardinality({k \in 1..Len(log) : log[k].estado = "duplicado"})
        /\ errores = Cardinality({k \in 1..Len(log) : log[k].estado = "error"})

\* C8: a batch of n files ends with n log entries, one per file in order, each
\* insertado, duplicado or error, and the three counters add up to n; a file
\* that ends in error leaves the store as it was, so the files after it meet
\* the store they would have met without it; and a started loop always ends.
C8_Batch ==
    /\ C8_Log
    /\ [][C8_Log']_vars
    /\ [][(Iterar /\ log'[Len(log')].estado = "error") => db' = db]_vars
    /\ (pc = "loop" ~> pc = "done")

\* a batch of at least two files ended, a parse failure and a posting failure in it
C8_Witness ==
    /\ pc = "done"
    /\ Len(log) = Len(archivos)
    /\ Len(log) >= 2
    /\ \E k \in 1..Len(log) : log[k].estado = "error" /\ log[k].detalle[1] = "No se pudo procesar"
    /\ \E k \in 1..Len(log) : log[k].estado = "error" /\ log[k].detalle[1] # "No se pudo procesar"

----------------------------------------------------------------------------
(* Properties of overlapping postings *)

\* C12 (as claimed): with the chart seeded, a call returns ok or duplicado;
\* it returns duplicado only if a Document with its key is committed (before
\* the call, or first by a competing call); of the calls for one key at most
\* one returns ok; so two overlapping calls with different keys from one
\* unseen issuer both return ok.
C12_Claim ==
    \A p \in Procs : (tx[p].pc = "fin" /\ PlanCompleto(db)) =>
        /\ tx[p].status \in {"ok", "duplicado"}
        /\ tx[p].status = "duplicado" =>
              \E x \in db.documentos : Clave(x) = Clave(tx[p].doc)
        /\ tx[p].status = "ok" =>
              \A q \in Procs \ {p} :
                  (tx[q].pc = "fin" /\ Clave(tx[q].doc) = Clave(tx[p].doc)) =>
                      tx[q].status = "duplicado"

====
